---- MODULE Spec2Model ----
(***************************************************************************)
(* The search loop of run_loop_docker.py (main and its helpers) as a state *)
(* machine.  One action per step of main(): the loop header with the       *)
(* prompt construction, the generator call, the parse, the compile, one    *)
(* benchmark run, the scoring of a candidate, and the selection.           *)
(*                                                                         *)
(* Scores are Python floats in the source.  They are modelled as exact     *)
(* rationals [num, den] in lowest terms, so that the division by           *)
(* len(workloads) and the ratio test against 1.3 are computed, not assumed.*)
(* An exception that no handler of main() catches ends the process: the    *)
(* model moves to pc = "aborted".                                          *)
(***************************************************************************)
EXTENDS Integers, Sequences, FiniteSets, TLC

\* ---------------------------------------------------------------- bounds
\* The source runs ITERATIONS = 50 iterations of CANDIDATES = 3 slots on a
\* suite of 5 workloads.  The model is checked on smaller instances of the
\* same loop: the two parameters are chosen at Init among Configs, and the
\* suite is the first NumWorkloads workloads.
MaxIterations == 3
MaxCandidates == 3
NumWorkloads == 2

Configs == {<<MaxIterations, 1>>, <<1, MaxCandidates>>, <<2, 2>>}

\* ------------------------------------------------------------- rationals
RECURSIVE GCD(_, _)
GCD(a, b) == IF b = 0 THEN a ELSE GCD(b, a % b)

Rat(n, d) == IF n = 0 THEN [num |-> 0, den |-> 1]
             ELSE [num |-> n \div GCD(n, d), den |-> d \div GCD(n, d)]

RatAdd(a, b) == Rat(a.num * b.den + b.num * a.den, a.den * b.den)
RatDiv(a, b) == Rat(a.num * b.den, a.den * b.num)
RatDivInt(a, n) == Rat(a.num, a.den * n)
RatGt(a, b) == a.num * b.den > b.num * a.den
RatLeq(a, b) == a.num * b.den <= b.num * a.den
RatMax(a, b) == IF RatGt(b, a) THEN b ELSE a
Zero == Rat(0, 1)

\* ------------------------------------------------------- configuration
AllWorkloads == <<"astar", "lbm", "mcf", "milc", "omnetpp">>
workloads == SubSeq(AllWorkloads, 1, NumWorkloads)
Threshold == Rat(13, 10)

None == "<None>"

\* The score of the best stored policy, top_policies[0]["score"].
InitialScores == {Rat(0, 1), Rat(2, 5)}

\* What the three regular expressions of parse_policy_content extract from
\* a generator response: None (no match), "" (empty after strip) or text.
Names == {"lru"}
Texts == [name : {None, ""} \cup Names,
          desc : {None, "", "d"},
          code : {None, "", "c"}]

\* The simulator's standard output, as far as parse_hit_rate reads it:
\* whether the LLC TOTAL line is there, and its two counters.
Outputs == {[llc |-> FALSE, access |-> 0, hit |-> 0],
            [llc |-> TRUE, access |-> 0, hit |-> 0],
            [llc |-> TRUE, access |-> 4, hit |-> 2]}

VARIABLES ITERATIONS, CANDIDATES, pc, i, j, w, best_hit, current_hit, prev,
          prompt, cand,
          total_hit, per_wl, candidate_results, best_cand, store, files, exes,
          status, early_exit, init_best, iter_start,
          op, arg, res, calls

vars == <<ITERATIONS, CANDIDATES, pc, i, j, w, best_hit, current_hit, prev,
          prompt, cand,
          total_hit, per_wl, candidate_results, best_cand, store, files, exes,
          status, early_exit, init_best, iter_start, op, arg, res,
          calls>>

\* The last call of a function of the two scripts made on its own (outside
\* the loop of main): which function, its argument and what it gave back.
fnvars == <<op, arg, res>>

\* The state of the loop of main().
loopvars == <<ITERATIONS, CANDIDATES, pc, i, j, w, best_hit, current_hit, prev,
              prompt, cand,
              total_hit, per_wl, candidate_results, best_cand, store, files,
              exes, status, early_exit, init_best, iter_start, calls>>

\* calls is the sequence of requests main() has sent out so far: to the
\* generator, to the compiler and to the simulator.
Call(kind, ii, jj, ww) == [kind |-> kind, i |-> ii, j |-> jj, w |-> ww]

\* What main() reads and never assigns.
inputs == <<ITERATIONS, CANDIDATES, init_best>>

Slots == (0 .. ITERATIONS - 1) \X (0 .. CANDIDATES - 1)

NoPrev == [name |-> None, desc |-> None, code |-> None]
\* Locals that are not bound yet.
NoCc == [i |-> -1, j |-> -1, base |-> None]
NoCand == [name |-> None, desc |-> None, code |-> None, cc |-> NoCc]
NoBest == [avg_hit |-> Zero, name |-> None, desc |-> None,
           code |-> None, cc |-> NoCc, per_wl |-> <<>>]

\* ------------------------------------------------------------- helpers
parse_policy_content(t) == <<t.name, t.desc, t.code>>

\* Variant: only None is rejected, an empty section passes.
Truthy_NotNone(s) == s # None

\* Python truthiness of an Optional[str]: None and "" are false.
Truthy(s) == s # None /\ s # ""

\* cc = EXAMPLE_DIR / f"{i:03}_{j:02}_{base}.cc"
CcPath(ii, jj, name) == [i |-> ii, j |-> jj, base |-> name]

\* parse_hit_rate: the value returned, or raised = TRUE for the RuntimeError.
Returns(v) == [raised |-> FALSE, value |-> v]
Raises == [raised |-> TRUE]

parse_hit_rate(out) ==
    IF out.llc
    THEN IF out.access > 0 THEN Returns(Rat(out.hit, out.access))
         ELSE Returns(Zero)
    ELSE Raises

\* Variant: INSERT OR REPLACE on (workload, policy).
record_Upsert(s, workload, name, desc, cc, rate) ==
    LET row == [workload |-> workload, policy |-> name, desc |-> desc,
                cc |-> cc, rate |-> rate]
        same == {k \in 1 .. Len(s) :
                    s[k].workload = workload /\ s[k].policy = name}
    IN IF same = {} THEN Append(s, row)
       ELSE [k \in 1 .. Len(s) |-> IF k \in same THEN row ELSE s[k]]

\* record(): one INSERT, i.e. one row appended.
record(s, workload, name, desc, cc, rate) ==
    Append(s, [workload |-> workload, policy |-> name, desc |-> desc,
               cc |-> cc, rate |-> rate])

\* Variant: the suite is walked from its end.
TraceInfo_Reversed(k) == workloads[Len(workloads) + 1 - k]

\* trace_info of the w-th pass of "for trace_info in workloads".
TraceInfo(k) == workloads[k]

\* Variant: a later element also replaces the current one on a tie.
RECURSIVE PyMaxLastFrom(_, _, _)
PyMaxLastFrom(rs, k, best) ==
    IF k > Len(rs) THEN best
    ELSE PyMaxLastFrom(rs, k + 1,
                       IF RatLeq(best.avg_hit, rs[k].avg_hit) THEN rs[k] ELSE best)

PyMax_LastWins(rs) == PyMaxLastFrom(rs, 2, rs[1])

\* max(candidate_results, key=avg_hit): the first element with the largest
\* key (a later element replaces the current one only if strictly larger).
RECURSIVE PyMaxFrom(_, _, _)
PyMaxFrom(rs, k, best) ==
    IF k > Len(rs) THEN best
    ELSE PyMaxFrom(rs, k + 1,
                   IF RatGt(rs[k].avg_hit, best.avg_hit) THEN rs[k] ELSE best)

PyMax(rs) == PyMaxFrom(rs, 2, rs[1])

\* Lines 253-261: the feedback branch taken and the new best_hit.
Improved(best, cur) == RatGt(cur, best)
\* Variant: the improved branch does not assign best_hit.
NewBest_Never(best, cur) == best

\* Variant: best_hit = current_hit outside the if.
NewBest_Unconditional(best, cur) == cur

NewBest(best, cur) == IF Improved(best, cur) THEN cur ELSE best

\* Variant: any improvement over a positive best leaves the loop.
EarlyExit_AnyImprovement(best, cur) == RatGt(best, Zero) /\ RatGt(cur, best)

\* Line 363: best_hit > 0 and (current_hit / best_hit) > 1.3
EarlyExit(best, cur) == RatGt(best, Zero) /\ RatGt(RatDiv(cur, best), Threshold)

\* "continue" of the slot loop, and its normal end: the next slot, or the
\* statement after the loop.
NextSlot ==
    /\ j' = j + 1
    /\ pc' = IF j + 1 < CANDIDATES THEN "gen" ELSE "select"

\* -------------------------------------------------------------- Init
Init ==
    /\ \E c \in Configs : ITERATIONS = c[1] /\ CANDIDATES = c[2]
    /\ pc = "for"
    /\ i = -1
    /\ j = 0
    /\ w = 1
    /\ init_best \in InitialScores
    /\ best_hit = init_best
    /\ current_hit = best_hit
    /\ prev = NoPrev
    /\ prompt = [kind |-> "none"]
    /\ cand = NoCand
    /\ total_hit = Zero
    /\ per_wl = <<>>
    /\ candidate_results = <<>>
    /\ best_cand = NoBest
    /\ store = <<>>
    /\ files = {}
    /\ exes = {}
    /\ status = [s \in Slots |-> "pending"]
    /\ early_exit = FALSE
    /\ iter_start = [best_hit |-> best_hit, current_hit |-> current_hit,
                     prev |-> prev, store |-> store]
    /\ op = "none"
    /\ arg = <<>>
    /\ res = <<>>
    /\ calls = <<>>

\* ------------------------------------------------------------ actions
\* for i in range(ITERATIONS): the next iteration starts; the prompt is
\* built (with the feedback branch for i >= 1) and the slot loop is entered.
NextIteration ==
    /\ pc = "for"
    /\ i + 1 < ITERATIONS
    /\ i' = i + 1
    /\ iter_start' = [best_hit |-> best_hit, current_hit |-> current_hit,
                      prev |-> prev, store |-> store]
    /\ IF i' = 0
       THEN /\ prompt' = [kind |-> "explore"]
            /\ best_hit' = best_hit
       ELSE /\ prompt' = [kind |-> "refine", prev |-> prev,
                          improved |-> Improved(best_hit, current_hit)]
            /\ best_hit' = NewBest(best_hit, current_hit)
    /\ candidate_results' = <<>>
    /\ j' = 0
    /\ pc' = IF CANDIDATES > 0 THEN "gen" ELSE "select"
    /\ UNCHANGED <<w, current_hit, prev, cand, total_hit, per_wl,
                   best_cand, store, files, exes, status, early_exit, inputs, fnvars, calls>>

\* range(ITERATIONS) is exhausted: the statements after the loop.
LoopExhausted ==
    /\ pc = "for"
    /\ ~(i + 1 < ITERATIONS)
    /\ pc' = "done"
    /\ UNCHANGED <<i, j, w, best_hit, current_hit, prev, prompt, cand,
                   total_hit, per_wl, candidate_results, best_cand, store,
                   files, exes, status, early_exit, inputs, fnvars, calls, iter_start>>

\* Variant: break instead of continue in the generator's except branch.
GenerateFails_Breaks ==
    /\ pc = "gen"
    /\ status' = [status EXCEPT ![<<i, j>>] = "gen_failed"]
    /\ pc' = "select"
    /\ calls' = Append(calls, Call("gen", i, j, 0))
    /\ UNCHANGED <<i, j, w, best_hit, current_hit, prev, prompt, cand,
                   total_hit, per_wl, candidate_results, best_cand, store,
                   files, exes, early_exit, inputs, fnvars, iter_start>>

\* Variant: a failed generator call is made again for the same slot.
GenerateFails_Retries ==
    /\ pc = "gen"
    /\ status' = [status EXCEPT ![<<i, j>>] = "gen_failed"]
    /\ pc' = "gen"
    /\ calls' = Append(calls, Call("gen", i, j, 0))
    /\ UNCHANGED <<i, j, w, best_hit, current_hit, prev, prompt, cand,
                   total_hit, per_wl, candidate_results, best_cand, store,
                   files, exes, early_exit, inputs, fnvars, iter_start>>

\* client.chat.completions.create raises: except Exception ... continue.
GenerateFails ==
    /\ pc = "gen"
    /\ status' = [status EXCEPT ![<<i, j>>] = "gen_failed"]
    /\ NextSlot
    /\ calls' = Append(calls, Call("gen", i, j, 0))
    /\ UNCHANGED <<i, w, best_hit, current_hit, prev, prompt, cand,
                   total_hit, per_wl, candidate_results, best_cand, store,
                   files, exes, early_exit, inputs, fnvars, iter_start>>

\* The generator answers with a text in which parse_policy_content does not
\* find all three sections: if not (name and desc and code): continue
ParseFails ==
    /\ pc = "gen"
    /\ \E text \in Texts :
          LET p == parse_policy_content(text)
          IN ~(Truthy(p[1]) /\ Truthy(p[2]) /\ Truthy(p[3]))
    /\ status' = [status EXCEPT ![<<i, j>>] = "parse_failed"]
    /\ NextSlot
    /\ calls' = Append(calls, Call("gen", i, j, 0))
    /\ UNCHANGED <<i, w, best_hit, current_hit, prev, prompt, cand,
                   total_hit, per_wl, candidate_results, best_cand, store,
                   files, exes, early_exit, inputs, fnvars, iter_start>>

\* The generator answers and the three sections are there: the source file
\* is written.
ParseOk ==
    /\ pc = "gen"
    /\ \E text \in Texts :
          LET p == parse_policy_content(text)
          IN /\ Truthy(p[1]) /\ Truthy(p[2]) /\ Truthy(p[3])
             /\ cand' = [name |-> p[1], desc |-> p[2], code |-> p[3],
                         cc |-> CcPath(i, j, p[1])]
    /\ files' = files \cup {cand'.cc}
    /\ pc' = "compile"
    /\ calls' = Append(calls, Call("gen", i, j, 0))
    /\ UNCHANGED <<i, j, w, best_hit, current_hit, prev, prompt,
                   total_hit, per_wl, candidate_results, best_cand, store,
                   exes, status, early_exit, inputs, fnvars, iter_start>>

\* Variant: no handler around compile_policy.
CompileFails_Unhandled ==
    /\ pc = "compile"
    /\ status' = [status EXCEPT ![<<i, j>>] = "build_failed"]
    /\ pc' = "aborted"
    /\ calls' = Append(calls, Call("build", i, j, 0))
    /\ UNCHANGED <<i, j, w, best_hit, current_hit, prev, prompt, cand,
                   total_hit, per_wl, candidate_results, best_cand, store,
                   files, exes, early_exit, inputs, fnvars, iter_start>>

\* compile_policy raises CalledProcessError: except ... continue.
CompileFails ==
    /\ pc = "compile"
    /\ status' = [status EXCEPT ![<<i, j>>] = "build_failed"]
    /\ NextSlot
    /\ calls' = Append(calls, Call("build", i, j, 0))
    /\ UNCHANGED <<i, w, best_hit, current_hit, prev, prompt, cand,
                   total_hit, per_wl, candidate_results, best_cand, store,
                   files, exes, early_exit, inputs, fnvars, iter_start>>

\* compile_policy returns the executable; the evaluation loop starts.
CompileOk ==
    /\ pc = "compile"
    /\ exes' = exes \cup {cand.cc}
    /\ total_hit' = Zero
    /\ per_wl' = <<>>
    /\ w' = 1
    /\ pc' = IF NumWorkloads > 0 THEN "run" ELSE "score"
    /\ calls' = Append(calls, Call("build", i, j, 0))
    /\ UNCHANGED <<i, j, best_hit, current_hit, prev, prompt, cand,
                   candidate_results, best_cand, store, files, status,
                   early_exit, inputs, fnvars, iter_start>>

\* run_policy re-raises CalledProcessError; main() has no handler around
\* the evaluation loop, so the exception leaves main().
RunPolicyFails ==
    /\ pc = "run"
    /\ status' = [status EXCEPT ![<<i, j>>] = "run_failed"]
    /\ pc' = "aborted"
    /\ calls' = Append(calls, Call("run", i, j, w))
    /\ UNCHANGED <<i, j, w, best_hit, current_hit, prev, prompt, cand,
                   total_hit, per_wl, candidate_results, best_cand, store,
                   files, exes, early_exit, inputs, fnvars, iter_start>>

\* run_policy returns an output in which parse_hit_rate finds no LLC TOTAL
\* line: RuntimeError, again without a handler.
MetricNotFound ==
    /\ pc = "run"
    /\ \E out \in Outputs : parse_hit_rate(out).raised
    /\ status' = [status EXCEPT ![<<i, j>>] = "metric_failed"]
    /\ pc' = "aborted"
    /\ calls' = Append(calls, Call("run", i, j, w))
    /\ UNCHANGED <<i, j, w, best_hit, current_hit, prev, prompt, cand,
                   total_hit, per_wl, candidate_results, best_cand, store,
                   files, exes, early_exit, inputs, fnvars, iter_start>>

\* One pass of the evaluation loop: run, parse, accumulate, record.
EvaluateItem ==
    /\ pc = "run"
    /\ \E out \in Outputs :
          /\ ~parse_hit_rate(out).raised
          /\ LET hit == parse_hit_rate(out).value
                 WORKLOAD == TraceInfo(w)
             IN /\ total_hit' = RatAdd(total_hit, hit)
                /\ per_wl' = Append(per_wl, <<WORKLOAD, hit>>)
                /\ store' = record(store, WORKLOAD, cand.name, cand.desc,
                                   cand.cc, hit)
    /\ w' = w + 1
    /\ pc' = IF w + 1 <= NumWorkloads THEN "run" ELSE "score"
    /\ calls' = Append(calls, Call("run", i, j, w))
    /\ UNCHANGED <<i, j, best_hit, current_hit, prev, prompt, cand,
                   candidate_results, best_cand, files, exes, status,
                   early_exit, inputs, fnvars, iter_start>>

\* avg_hit = total_hit / len(workloads); candidate_results.append(...)
ScoreCandidate ==
    /\ pc = "score"
    /\ IF NumWorkloads = 0
       THEN /\ pc' = "aborted"
            /\ j' = j
            /\ status' = [status EXCEPT ![<<i, j>>] = "zero_division"]
            /\ UNCHANGED candidate_results
       ELSE /\ candidate_results' =
                   Append(candidate_results,
                          [avg_hit |-> RatDivInt(total_hit, NumWorkloads),
                           name |-> cand.name, desc |-> cand.desc,
                           code |-> cand.code, cc |-> cand.cc,
                           per_wl |-> per_wl])
            /\ status' = [status EXCEPT ![<<i, j>>] = "ok"]
            /\ NextSlot
    /\ UNCHANGED <<i, w, best_hit, current_hit, prev, prompt, cand,
                   total_hit, per_wl, best_cand, store, files, exes,
                   early_exit, inputs, fnvars, calls, iter_start>>

\* Variant: the skip forgets the previous chosen candidate.
SkipIteration_ClearsPrev ==
    /\ pc = "select"
    /\ candidate_results = <<>>
    /\ prev' = NoPrev
    /\ pc' = "for"
    /\ UNCHANGED <<i, j, w, best_hit, current_hit, prompt, cand,
                   total_hit, per_wl, candidate_results, best_cand, store,
                   files, exes, status, early_exit, inputs, fnvars, calls, iter_start>>

\* Variant: the skip branch never returns to the loop head.
SkipIteration_Hangs ==
    /\ pc = "select"
    /\ candidate_results = <<>>
    /\ UNCHANGED vars

\* if not candidate_results: ... continue
SkipIteration ==
    /\ pc = "select"
    /\ candidate_results = <<>>
    /\ prev' = prev
    /\ pc' = "for"
    /\ UNCHANGED <<i, j, w, best_hit, current_hit, prompt, cand,
                   total_hit, per_wl, candidate_results, best_cand, store,
                   files, exes, status, early_exit, inputs, fnvars, calls, iter_start>>

\* Lines 349-365: select, record under 'all', remember the winner, and
\* leave the loop if the early-exit test holds.
SelectBest ==
    /\ pc = "select"
    /\ candidate_results # <<>>
    /\ best_cand' = PyMax(candidate_results)
    /\ current_hit' = best_cand'.avg_hit
    /\ store' = record(store, "all", best_cand'.name, best_cand'.desc,
                       best_cand'.cc, current_hit')
    /\ prev' = [name |-> best_cand'.name, desc |-> best_cand'.desc,
                code |-> best_cand'.code]
    /\ early_exit' = EarlyExit(best_hit, current_hit')
    /\ pc' = IF early_exit' THEN "done" ELSE "for"
    /\ UNCHANGED <<i, j, w, best_hit, prompt, cand, total_hit, per_wl,
                   candidate_results, files, exes, status, inputs, fnvars, calls,
                   iter_start>>

Next ==
    \/ NextIteration
    \/ LoopExhausted
    \/ GenerateFails
    \/ ParseFails
    \/ ParseOk
    \/ CompileFails
    \/ CompileOk
    \/ RunPolicyFails
    \/ MetricNotFound
    \/ EvaluateItem
    \/ ScoreCandidate
    \/ SelectBest
    \/ SkipIteration

Spec == Init /\ [][Next]_vars

\* The loop is a sequential program: whenever a step is possible, one is taken.
LiveSpec == Spec /\ WF_vars(Next)


\* ------------------------------------------------------- shared notions
Last(s) == s[Len(s)]

\* The slot a source file (and with it a store row) belongs to.
OfSlot(cc, s) == cc.i = s[1] /\ cc.j = s[2]

\* The per-item rows of the store that belong to slot s.
ItemRowsOf(s) ==
    {k \in 1 .. Len(store) : store[k].workload # "all" /\ OfSlot(store[k].cc, s)}

\* The position of a benchmark name in the suite.
SuiteIndex(name) == CHOOSE k \in 1 .. Len(AllWorkloads) : AllWorkloads[k] = name

\* The slot loop of iteration ii has ended normally.
SlotLoopOver(ii) == i > ii \/ (i = ii /\ pc \in {"select", "for", "done"})

\* The iteration that just ended selected nothing.
Skipped == pc \in {"for", "done"} /\ i >= 0 /\ candidate_results = <<>>

\* C1: a failure while one candidate is evaluated (run_policy or
\* parse_hit_rate raising) never aborts the run.
C1_EvaluationFailureContained ==
    \A s \in Slots :
        status[s] \in {"run_failed", "metric_failed"} => pc # "aborted"

\* C2: best_hit never decreases from one state of the run to the next.
C2_BestHitNonDecreasing == [][RatLeq(best_hit, best_hit')]_vars

C2_Witness == i >= 1 /\ RatGt(best_hit, init_best)

\* The largest of the initially loaded score and the scores chosen in
\* iterations before ii, read from the 'all' rows of the store.
RECURSIVE ChosenMax(_, _, _)
ChosenMax(k, ii, acc) ==
    IF k > Len(store) THEN acc
    ELSE ChosenMax(k + 1, ii,
                   IF store[k].workload = "all" /\ store[k].cc.i < ii
                   THEN RatMax(acc, store[k].rate) ELSE acc)

PreIterationBest == ChosenMax(1, i, init_best)

\* C3: the step that ends an iteration leaves the loop early if and only if
\* a candidate was chosen, the pre-iteration best is positive and
\* chosen / pre-iteration best > 1.3.
C3_EarlyExitIff ==
    [][(pc = "select" /\ pc' # "select") =>
         LET pre == PreIterationBest
         IN (early_exit' /\ pc' = "done") <=>
               /\ candidate_results # <<>>
               /\ pre.num > 0
               /\ 10 * Last(store').rate.num * pre.den
                     > 13 * pre.num * Last(store').rate.den]_vars

C3_Witness == early_exit /\ pc = "done" /\ i = 1 /\ init_best = Zero

\* C4: when the run of one benchmark item fails, the other items of the
\* suite are still run and recorded for that candidate, and the run goes on.
C4_RemainingItemsStillRun ==
    pc \in {"done", "aborted"} =>
        \A s \in Slots :
            status[s] = "run_failed" =>
                /\ Cardinality(ItemRowsOf(s)) = NumWorkloads - 1
                /\ pc = "done"

\* C5 (as stated): after an iteration with no surviving candidate,
\* best_hit, current_hit, the previous chosen candidate and the store are
\* what they were when the iteration started.
C5_SkipLeavesAllState ==
    Skipped =>
        /\ best_hit = iter_start.best_hit
        /\ current_hit = iter_start.current_hit
        /\ prev = iter_start.prev
        /\ store = iter_start.store

\* C5 (amended): after an iteration with no surviving candidate the store,
\* current_hit and the previous chosen candidate are what they were when
\* the iteration started; best_hit is unchanged in iteration 0 and is
\* max(best_hit, current_hit) of the iteration's start otherwise; the loop
\* goes on (it ends only when the budget is exhausted).
C5_SkipLeavesStateButBest ==
    Skipped =>
        /\ current_hit = iter_start.current_hit
        /\ prev = iter_start.prev
        /\ store = iter_start.store
        /\ best_hit = IF i = 0 THEN iter_start.best_hit
                      ELSE RatMax(iter_start.best_hit, iter_start.current_hit)
        /\ ~early_exit
        /\ pc = "done" => i = ITERATIONS - 1

C5_Witness ==
    Skipped /\ i = 1 /\ prev # NoPrev /\ best_hit # iter_start.best_hit

\* C6: the selected candidate has the largest average among the
\* candidates that completed evaluation, and the lowest slot index among
\* those with that average; it is the one recorded under 'all'.
C6_SelectsFirstMaximum ==
    [][(pc = "select" /\ pc' # "select" /\ candidate_results # <<>>) =>
         /\ \E k \in 1 .. Len(candidate_results) :
                candidate_results[k] = best_cand'
         /\ \A k \in 1 .. Len(candidate_results) :
                /\ RatLeq(candidate_results[k].avg_hit, best_cand'.avg_hit)
                /\ candidate_results[k].avg_hit = best_cand'.avg_hit
                      => best_cand'.cc.j <= candidate_results[k].cc.j
         /\ Last(store').cc = best_cand'.cc
         /\ Last(store').rate = best_cand'.avg_hit]_vars

C6_Witness ==
    /\ pc \in {"for", "done"}
    /\ Len(candidate_results) = 2
    /\ candidate_results[1].avg_hit = candidate_results[2].avg_hit
    /\ best_cand = candidate_results[1]

\* C7: a slot whose generation failed (call raised, or response did not
\* parse) has no source file, no executable and no store row, and the slot
\* loop goes on with the next slot, so every slot of the iteration is
\* processed.
C7_GenerationFailureDropsSlotOnly ==
    /\ [](\A s \in Slots :
            status[s] \in {"gen_failed", "parse_failed"} =>
                /\ \A f \in files \cup exes : ~OfSlot(f, s)
                /\ \A k \in 1 .. Len(store) : ~OfSlot(store[k].cc, s)
                /\ SlotLoopOver(s[1]) =>
                      \A jj \in 0 .. CANDIDATES - 1 :
                          status[<<s[1], jj>>] # "pending")
    /\ [][(pc = "gen" /\ status'[<<i, j>>] \in {"gen_failed", "parse_failed"}) =>
            /\ j' = j + 1
            /\ pc' = IF j + 1 < CANDIDATES THEN "gen" ELSE "select"
            /\ i' = i]_vars

C7_Witness ==
    /\ ITERATIONS = 2 /\ CANDIDATES = 2
    /\ status[<<0, 0>>] = "gen_failed" /\ status[<<0, 1>>] = "ok"
    /\ status[<<1, 0>>] = "parse_failed" /\ status[<<1, 1>>] = "ok"

\* C8: a candidate whose build failed has a source file but no executable,
\* no store row and no entry among the selection candidates, and the slot
\* loop goes on with the next slot.
C8_BuildFailureDropsCandidateOnly ==
    /\ [](\A s \in Slots :
            status[s] = "build_failed" =>
                /\ \E f \in files : OfSlot(f, s)
                /\ \A e \in exes : ~OfSlot(e, s)
                /\ \A k \in 1 .. Len(store) : ~OfSlot(store[k].cc, s)
                /\ s[1] = i =>
                      \A k \in 1 .. Len(candidate_results) :
                          ~OfSlot(candidate_results[k].cc, s))
    /\ [][(pc = "compile" /\ status'[<<i, j>>] = "build_failed") =>
            /\ j' = j + 1
            /\ pc' = IF j + 1 < CANDIDATES THEN "gen" ELSE "select"
            /\ i' = i]_vars

C8_Witness ==
    /\ ITERATIONS = 2 /\ CANDIDATES = 2
    /\ status[<<0, 0>>] = "build_failed" /\ status[<<0, 1>>] = "ok"
        /\ OfSlot(best_cand.cc, <<0, 1>>)
    /\ i = 1

\* C9: in the store, the per-item rows of one candidate are in suite order;
\* an 'all' row of an iteration is written when every slot of that
\* iteration has finished, and no per-item row of that iteration follows it.
C9_StoreOrder ==
    /\ \A s \in Slots :
          \A p, q \in ItemRowsOf(s) :
              p < q => SuiteIndex(store[p].workload) < SuiteIndex(store[q].workload)
    /\ \A p \in 1 .. Len(store) :
          store[p].workload = "all" =>
              /\ \A jj \in 0 .. CANDIDATES - 1 :
                    status[<<store[p].cc.i, jj>>] # "pending"
              /\ \A q \in (p + 1) .. Len(store) : store[q].cc.i > store[p].cc.i

C9_Witness ==
    /\ Len(store) > NumWorkloads + 1
    /\ store[NumWorkloads + 1].workload = "all"
    /\ Cardinality(ItemRowsOf(<<1, 0>>)) = NumWorkloads

\* C10: as long as no exception leaves main(), whatever the slots'
\* outcomes are, the loop reaches DONE, and it never starts more than
\* ITERATIONS iterations.
C10_ReachesDone ==
    /\ [](i < ITERATIONS)
    /\ ([](pc # "aborted")) => <>(pc = "done")

C10_Witness == pc = "done" /\ store = <<>> /\ i = ITERATIONS - 1


\* All three sections of a candidate are there and non-empty.
\* A section that was extracted and is not empty.
Present(s) == s \notin {None, ""}

Complete(c) == Present(c.name) /\ Present(c.desc) /\ Present(c.code)

\* The rows written under the aggregate label.
AllRows == {k \in 1 .. Len(store) : store[k].workload = "all"}

\* The iteration that just ended selected a candidate.
Selected == pc \in {"for", "done"} /\ i >= 0 /\ candidate_results # <<>>

\* C11: one iteration of three slots, slot 1 malformed, slot 2 built with
\* one failed run, slot 3 fully evaluated: the run ends normally with the
\* third candidate selected, the item rows of slot 2 (all but one) and of
\* slot 3 (all) and exactly one aggregate row carrying the chosen score.
C11_ScenarioSelectsThird ==
    (/\ ITERATIONS = 1 /\ CANDIDATES >= 3
     /\ pc \in {"done", "aborted"}
     /\ status[<<0, 0>>] = "parse_failed"
     /\ status[<<0, 1>>] = "run_failed") =>
        /\ pc = "done"
        /\ status[<<0, 2>>] = "ok"
        /\ OfSlot(best_cand.cc, <<0, 2>>)
        /\ Cardinality(ItemRowsOf(<<0, 1>>)) = NumWorkloads - 1
        /\ Cardinality(ItemRowsOf(<<0, 2>>)) = NumWorkloads
        /\ Cardinality(AllRows) = 1
        /\ Last(store).rate = best_cand.avg_hit

\* C15: whatever was written to a file, built, evaluated, recorded or
\* carried forward as the previous chosen candidate has a non-empty name,
\* description and code; a response that lacks one of them leaves no file.
C15_NoPartialCandidate ==
    /\ cand = NoCand \/ Complete(cand)
    /\ prev = NoPrev \/ Complete(prev)
    /\ best_cand = NoBest \/ Complete(best_cand)
    /\ \A k \in 1 .. Len(candidate_results) : Complete(candidate_results[k])
    /\ \A k \in 1 .. Len(store) :
          Present(store[k].policy) /\ Present(store[k].desc)
    /\ \A s \in Slots :
          status[s] = "parse_failed" => \A f \in files : ~OfSlot(f, s)

C15_Witness ==
    /\ prev # NoPrev
    /\ \E s \in Slots : status[s] = "parse_failed"

\* C16: every step leaves the rows already in the store as they are and
\* adds at most one row at the end.
C16_StoreAppendOnly ==
    [][/\ Len(store') \in {Len(store), Len(store) + 1}
       /\ SubSeq(store', 1, Len(store)) = store]_vars

C16_Witness == pc = "aborted" /\ Len(store) > NumWorkloads + 1

\* C19 (as stated): at the end of an iteration that selected, the previous
\* chosen candidate is the winner and best_hit is the larger of the
\* pre-iteration best and the chosen score; at DONE best_hit is at least
\* every chosen score.
C19_RecordingRaisesBest ==
    /\ Selected =>
          /\ prev = [name |-> best_cand.name, desc |-> best_cand.desc,
                     code |-> best_cand.code]
          /\ best_hit = RatMax(PreIterationBest, current_hit)
    /\ pc = "done" => \A k \in AllRows : RatLeq(store[k].rate, best_hit)

\* C19 (amended): at the end of an iteration that selected, the previous
\* chosen candidate is the winner, current_hit is the chosen score written
\* under 'all', and best_hit still is the pre-iteration best; at DONE the
\* larger of best_hit and current_hit is at least every chosen score.
C19_RecordingKeepsBestForNextRound ==
    /\ Selected =>
          /\ prev = [name |-> best_cand.name, desc |-> best_cand.desc,
                     code |-> best_cand.code]
          /\ best_cand.cc.i = i
          /\ Last(store).workload = "all"
          /\ current_hit = Last(store).rate
          /\ current_hit = best_cand.avg_hit
          /\ best_hit = PreIterationBest
    /\ pc = "done" =>
          \A k \in AllRows :
              RatLeq(store[k].rate, RatMax(best_hit, current_hit))

C19_Witness ==
    Selected /\ pc = "done" /\ i >= 1 /\ RatGt(current_hit, best_hit)

\* C20: a refine prompt carries the name, description and source of a
\* candidate that was chosen in an earlier iteration.
C20_RefinePromptHasChosen ==
    prompt.kind = "refine" => Complete(prompt.prev)

\* =====================================================================
\* The functions of the two scripts, called on their own
\* =====================================================================
MaxLines == 3
MaxCount == 2
MaxEvalItems == 2
MaxRequest == 2
MaxNameLen == 4

\* All sequences over S of length at most n.
SeqsUpTo(S, n) == UNION {[1 .. m -> S] : m \in 0 .. n}

\* ------------------------------------------------- text as characters
\* A text is a sequence of one-character strings.
UpperLetters == <<"A", "B", "C", "D", "E", "F", "G", "H", "I", "J", "K", "L",
                  "M", "N", "O", "P", "Q", "R", "S", "T", "U", "V", "W", "X",
                  "Y", "Z">>
LowerLetters == <<"a", "b", "c", "d", "e", "f", "g", "h", "i", "j", "k", "l",
                  "m", "n", "o", "p", "q", "r", "s", "t", "u", "v", "w", "x",
                  "y", "z">>
Digits == {"0", "1", "2", "3", "4", "5", "6", "7", "8", "9"}
Whitespace == {" ", "\t", "\n"}

IsUpper(c) == \E k \in 1 .. Len(UpperLetters) : UpperLetters[k] = c
IsLower(c) == \E k \in 1 .. Len(LowerLetters) : LowerLetters[k] = c

\* str.isalnum() of one character.
isalnum(c) == IsUpper(c) \/ IsLower(c) \/ c \in Digits

\* str.lower()
LowerChar(c) ==
    IF IsUpper(c)
    THEN LowerLetters[CHOOSE k \in 1 .. Len(UpperLetters) : UpperLetters[k] = c]
    ELSE c
lower(s) == [k \in 1 .. Len(s) |-> LowerChar(s[k])]

\* str.strip(chars): leading and trailing characters of D are removed.
RECURSIVE LStrip(_, _)
LStrip(s, D) == IF s # <<>> /\ Head(s) \in D THEN LStrip(Tail(s), D) ELSE s
RECURSIVE RStrip(_, _)
RStrip(s, D) ==
    IF s # <<>> /\ s[Len(s)] \in D THEN RStrip(SubSeq(s, 1, Len(s) - 1), D)
    ELSE s
strip(s, D) == RStrip(LStrip(s, D), D)

\* The text as one string.
RECURSIVE Join(_)
Join(s) == IF s = <<>> THEN "" ELSE Head(s) \o Join(Tail(s))

\* ------------------------------------------------------------ sanitize
\* "".join(c if c.isalnum() else "_" for c in name)
Replaced(name) == [k \in 1 .. Len(name) |-> IF isalnum(name[k]) THEN name[k] ELSE "_"]

sanitize(name) == lower(strip(Replaced(name), {"_"}))

NameChars == {"a", "B", "7", "-", "_"}
RawPolicyNames == SeqsUpTo(NameChars, MaxNameLen)

\* ------------------------------------------------------------ parse_ipc
\* A run output is a sequence of lines; a line is what the patterns of
\* parse_ipc can tell apart, with the number it carries:
\*   cpu_cumulative        "CPU 0 cumulative IPC: v"    (first pattern)
\*   overall               "Overall IPC: v"             (second pattern)
\*   cummulative           "... cummulative IPC: v"     (the misspelling)
\*   heartbeat_cumulative  "... heartbeat IPC: x cumulative IPC: v",
\*                         correctly spelled, no "CPU n" right before it
\*   instructions, cycles  "Total Instructions: n", "Total Cycles: n"
\*   noise                 any other line
IpcLine(kind, val) == [kind |-> kind, val |-> val]

IpcValues == {Rat(1, 1), Rat(2, 1)}
Counts == {Rat(n, 1) : n \in 0 .. MaxCount}
RateKinds == {"cpu_cumulative", "overall", "cummulative", "heartbeat_cumulative"}
OutputLines ==
    {IpcLine(k, v) : k \in RateKinds, v \in IpcValues}
        \cup {IpcLine(k, c) : k \in {"instructions", "cycles"}, c \in Counts}
        \cup {IpcLine("noise", Zero)}
IpcOutputs == SeqsUpTo(OutputLines, MaxLines)

LinesOf(out, kind) == {k \in 1 .. Len(out) : out[k].kind = kind}
Min(S) == CHOOSE x \in S : \A y \in S : x <= y
Max(S) == CHOOSE x \in S : \A y \in S : x >= y

\* re.search: the first match of the pattern.
re_search(out, kind) == out[Min(LinesOf(out, kind))].val
\* re.findall(...)[-1]: the last match of the pattern.
re_findall_last(out, kind) == out[Max(LinesOf(out, kind))].val

parse_ipc(out) ==
    IF LinesOf(out, "cpu_cumulative") # {}
    THEN Returns(re_search(out, "cpu_cumulative"))
    ELSE IF LinesOf(out, "overall") # {}
    THEN Returns(re_search(out, "overall"))
    ELSE IF LinesOf(out, "cummulative") # {}
    THEN Returns(re_findall_last(out, "cummulative"))
    ELSE IF /\ LinesOf(out, "instructions") # {}
            /\ LinesOf(out, "cycles") # {}
            /\ RatGt(re_search(out, "cycles"), Zero)
    THEN Returns(RatDiv(re_search(out, "instructions"), re_search(out, "cycles")))
    ELSE Raises

\* The outputs parse_hit_rate can tell apart: the LLC TOTAL line, if any,
\* with its ACCESS and HIT counters.
HitOutputs ==
    {o \in [llc : BOOLEAN, access : 0 .. MaxCount, hit : 0 .. MaxCount] :
        /\ o.hit <= o.access
        /\ ~o.llc => o.access = 0}

\* ------------------------------------------------------ pick_workloads
WORKLOADS == <<"astar", "lbm", "mcf", "milc", "omnetpp">>

\* Names as they can be given on the command line.
RawNames == {<<"l", "b", "m">>, <<" ", "L", "B", "M", " ">>, <<"M", "c", "f">>,
             <<"a", "s", "t", "a", "r">>, <<"f", "o", "o">>, <<" ">>, <<>>}
Requests == SeqsUpTo(RawNames, MaxRequest)

\* n.strip().lower()
Normalized(n) == Join(lower(strip(n, Whitespace)))

\* Variant: names that are not in the suite are dropped silently.
pick_workloads_IgnoresUnknown(names) ==
    IF names = <<>> THEN Returns(WORKLOADS)
    ELSE LET name_set == {Normalized(names[k]) : k \in 1 .. Len(names)}
             Requested(n) == n \in name_set
         IN Returns(SelectSeq(WORKLOADS, Requested))

\* The names of WORKLOADS are lower-case literals: w["name"].lower() is the
\* name itself.
pick_workloads(names) ==
    IF names = <<>> THEN Returns(WORKLOADS)
    ELSE LET name_set == {Normalized(names[k]) : k \in 1 .. Len(names)}
             Requested(n) == n \in name_set
             selected == SelectSeq(WORKLOADS, Requested)
             missing == name_set \ {selected[k] : k \in 1 .. Len(selected)}
         IN IF missing # {} THEN Raises ELSE Returns(selected)

\* ----------------------------------------------------- evaluate_policy
\* What run_executable gives for one workload: it raises (ok = FALSE) or
\* returns the output of the run.
EvalRuns ==
    {[ok |-> FALSE, out |-> <<>>], [ok |-> TRUE, out |-> <<>>]}
        \cup {[ok |-> TRUE, out |-> <<IpcLine("overall", v)>>] : v \in IpcValues}

EvalInputs ==
    UNION {[ws : {SubSeq(WORKLOADS, 1, n)}, compile_ok : BOOLEAN,
            runs : [1 .. n -> EvalRuns]] : n \in 0 .. MaxEvalItems}

RECURSIVE SumIpc(_, _)
SumIpc(results, k) ==
    IF k > Len(results) THEN Zero
    ELSE RatAdd(results[k].ipc, SumIpc(results, k + 1))

\* compile_policy, run_executable and parse_ipc raise through evaluate_policy.
evaluate_policy(a) ==
    IF ~a.compile_ok THEN Raises
    ELSE IF \E k \in 1 .. Len(a.ws) : ~a.runs[k].ok \/ parse_ipc(a.runs[k].out).raised
    THEN Raises
    ELSE LET results == [k \in 1 .. Len(a.ws) |->
                            [workload |-> a.ws[k],
                             ipc |-> parse_ipc(a.runs[k].out).value]]
             mean_ipc == IF results # <<>>
                         THEN RatDivInt(SumIpc(results, 1), Len(results))
                         ELSE Zero
         IN Returns([mean_ipc |-> mean_ipc, results |-> results])

\* ---------------------------------------------------------- file names
MaxStemLen == 2

DigitChars == <<"0", "1", "2", "3", "4", "5", "6", "7", "8", "9">>

\* str(n) of a natural number.
RECURSIVE Decimal(_)
Decimal(n) ==
    IF n < 10 THEN <<DigitChars[n + 1]>>
    ELSE Decimal(n \div 10) \o <<DigitChars[(n % 10) + 1]>>

\* f"{n:0width}": at least width digits, zeros in front.
ZeroPad(n, width) ==
    LET d == Decimal(n)
    IN IF Len(d) >= width THEN d
       ELSE [k \in 1 .. width - Len(d) |-> "0"] \o d

\* "_t" + str(temp).replace('.', '') with temp = TEMP = 0.2
TempSuffix == <<"_", "t", "0", "2">>

\* Variant: the slot index is left out of the file name.
cc_name_NoSlot(ii, jj, name) ==
    ZeroPad(ii, 3) \o <<"_">> \o sanitize(name) \o TempSuffix \o <<".", "c", "c">>

\* f"{i:03}_{j:02}_{base}.cc" with base = sanitize(name) + "_t02"
cc_name(ii, jj, name) ==
    ZeroPad(ii, 3) \o <<"_">> \o ZeroPad(jj, 2) \o <<"_">>
        \o sanitize(name) \o TempSuffix \o <<".", "c", "c">>

\* Path.with_suffix: the last suffix of the name is replaced.
with_suffix(path, suffix) ==
    LET dots == {k \in 1 .. Len(path) : path[k] = "."}
    IN IF dots = {} THEN path \o suffix
       ELSE SubSeq(path, 1, Max(dots) - 1) \o suffix

\* compile_policy: exe = cc.with_suffix(".out")
exe_name(cc) == with_suffix(cc, <<".", "o", "u", "t">>)

\* Iteration and slot indices within range(ITERATIONS) and range(CANDIDATES)
\* of the script, and policy names made of a digit, a separator and a letter.
FileIterations == {0, 1, 10, 49}
FileSlots == {0, 1, 2}
FileStems == SeqsUpTo({"1", "_", "a"}, MaxStemLen)
FileKeys == [i : FileIterations, j : FileSlots, name : FileStems]

\* --------------------------------------------------------------- calls
\* One call per behaviour: a function is called once, from the start state.
CallSanitize ==
    /\ op = "none"
    /\ \E name \in RawPolicyNames :
        /\ op' = "sanitize"
        /\ arg' = name
        /\ res' = sanitize(name)
    /\ UNCHANGED loopvars

CallParseIpc ==
    /\ op = "none"
    /\ \E out \in IpcOutputs :
        /\ op' = "parse_ipc"
        /\ arg' = out
        /\ res' = parse_ipc(out)
    /\ UNCHANGED loopvars

CallParseHitRate ==
    /\ op = "none"
    /\ \E out \in HitOutputs :
        /\ op' = "parse_hit_rate"
        /\ arg' = out
        /\ res' = parse_hit_rate(out)
    /\ UNCHANGED loopvars

CallEvaluatePolicy ==
    /\ op = "none"
    /\ \E a \in EvalInputs :
        /\ op' = "evaluate_policy"
        /\ arg' = a
        /\ res' = evaluate_policy(a)
    /\ UNCHANGED loopvars

\* main() of eval_ipc_docker.py: the workloads are picked, and only if that
\* returns is the policy evaluated.
CallPickWorkloads ==
    /\ op = "none"
    /\ \E names \in Requests :
        LET selected == pick_workloads(names)
        IN /\ op' = "pick_workloads"
           /\ arg' = names
           /\ res' = [selected |-> selected, evaluated |-> ~selected.raised]
    /\ UNCHANGED loopvars

\* The names of the source file and the executable of two candidates.
CallCcName ==
    /\ op = "none"
    /\ \E a, b \in FileKeys :
        LET cc1 == cc_name(a.i, a.j, a.name)
            cc2 == cc_name(b.i, b.j, b.name)
        IN /\ op' = "cc_name"
           /\ arg' = <<a, b>>
           /\ res' = [cc |-> <<cc1, cc2>>,
                      exe |-> <<exe_name(cc1), exe_name(cc2)>>]
    /\ UNCHANGED loopvars

FnInit == Init /\ ITERATIONS = 1 /\ init_best = Zero

FnNext ==
    \/ CallSanitize
    \/ CallParseIpc
    \/ CallParseHitRate
    \/ CallEvaluatePolicy
    \/ CallPickWorkloads
    \/ CallCcName

FnSpec == FnInit /\ [][FnNext]_vars

\* ---------------------------------------------------------------- C12
\* C12: a metric extractor never returns a default value: parse_ipc and
\* parse_hit_rate either raise, or return a value carried by a rate line of
\* the output, or the quotient of two totals of the output whose denominator
\* is not zero.
C12_NeverADefaultValue ==
    /\ op = "parse_ipc" =>
        \/ res.raised
        \/ \E k \in 1 .. Len(arg) :
              arg[k].kind \in RateKinds /\ res.value = arg[k].val
        \/ \E a, b \in 1 .. Len(arg) :
              /\ arg[a].kind = "instructions"
              /\ arg[b].kind = "cycles"
              /\ RatGt(arg[b].val, Zero)
              /\ res.value = RatDiv(arg[a].val, arg[b].val)
    /\ op = "parse_hit_rate" =>
        \/ res.raised
        \/ /\ arg.llc
           /\ arg.access > 0
           /\ res.value = Rat(arg.hit, arg.access)

\* ---------------------------------------------------------------- C13
CumulativeKinds == {"cpu_cumulative", "heartbeat_cumulative", "cummulative"}

\* C13: when the output has several cumulative-rate lines (of one spelling,
\* and no other rate line), parse_ipc returns the value of the last of them,
\* for the correct spelling as well as for the misspelling.
C13_LastCumulativeWins ==
    op = "parse_ipc" =>
        \A K \in CumulativeKinds :
            (/\ Cardinality(LinesOf(arg, K)) >= 2
             /\ \A other \in RateKinds \ {K} : LinesOf(arg, other) = {})
                => res = Returns(arg[Max(LinesOf(arg, K))].val)

\* ---------------------------------------------------------------- C14
\* C14: whenever evaluate_policy reports a score, it is the arithmetic mean
\* of a non-empty set of observations; for an empty set no score is
\* reported.
C14_MeanOfObservationsOrNoScore ==
    (op = "evaluate_policy" /\ ~res.raised) =>
        /\ res.value.results # <<>>
        /\ Len(res.value.results) = Len(arg.ws)
        /\ res.value.mean_ipc =
               RatDivInt(SumIpc(res.value.results, 1), Len(res.value.results))

\* ---------------------------------------------------------------- C17
\* C17: pick_workloads gives the full suite for an empty request; if a
\* requested name, trimmed and lower-cased, is not a suite name it raises
\* and the evaluation does not start; otherwise it returns exactly the
\* requested suite items, in suite order, and the evaluation starts.
C17_UnknownNamesRejected ==
    op = "pick_workloads" =>
        LET requested == {Normalized(arg[k]) : k \in 1 .. Len(arg)}
            suite == {WORKLOADS[k] : k \in 1 .. Len(WORKLOADS)}
            sel == res.selected
        IN IF arg = <<>>
           THEN sel = Returns(WORKLOADS) /\ res.evaluated
           ELSE IF requested \ suite # {}
           THEN sel.raised /\ ~res.evaluated
           ELSE /\ ~sel.raised
                /\ res.evaluated
                /\ {sel.value[k] : k \in 1 .. Len(sel.value)} = requested
                /\ \A a, b \in 1 .. Len(sel.value) :
                      a < b => SuiteIndex(sel.value[a]) < SuiteIndex(sel.value[b])

\* A request with a suite name and an unknown name has been rejected.
C17_Witness ==
    /\ op = "pick_workloads"
    /\ Len(arg) = 2
    /\ Normalized(arg[1]) = "lbm"
    /\ Normalized(arg[2]) = "foo"
    /\ res.selected.raised

\* ---------------------------------------------------------------- C18
\* C18: the output of sanitize consists of lower-case letters, digits and
\* separators only, and never has two separators next to each other.
C18_SanitizedHasSingleSeparators ==
    op = "sanitize" =>
        /\ \A k \in 1 .. Len(res) :
              res[k] = "_" \/ IsLower(res[k]) \/ res[k] \in Digits
        /\ \A k \in 1 .. Len(res) - 1 : ~(res[k] = "_" /\ res[k + 1] = "_")

\* ---------------------------------------------------------------- C21
\* The 'all' rows written in iterations before ii.
ChosenBefore(ii) == {k \in AllRows : store[k].cc.i < ii}

\* C21: the feedback of a refine prompt is the 'improved' one exactly when
\* the most recently chosen candidate's score strictly exceeded the best
\* score that held when it was chosen, skipped iterations in between or
\* not; with no candidate chosen yet the feedback is not 'improved'.
C21_FeedbackFollowsLastChoice ==
    prompt.kind = "refine" =>
        IF ChosenBefore(i) = {}
        THEN ~prompt.improved
        ELSE LET last == store[Max(ChosenBefore(i))]
             IN prompt.improved <=>
                    RatGt(last.rate, ChosenMax(1, last.cc.i, init_best))

\* ---------------------------------------------------------------- C22
\* The generator calls of iteration ii.
GenCallsOf(ii) ==
    {k \in 1 .. Len(calls) : calls[k].kind = "gen" /\ calls[k].i = ii}

\* C22: no request is made twice (per iteration and slot at most one
\* generator call, one build and one run per item), generator calls come in
\* slot order, a build or run follows the generator call of its slot, and an
\* iteration whose slot loop is over has made exactly CANDIDATES generator
\* calls.
C22_OneRequestPerSlotNoRetry ==
    /\ \A a, b \in 1 .. Len(calls) : a < b => calls[a] # calls[b]
    /\ \A a, b \in 1 .. Len(calls) :
          (a < b /\ calls[a].kind = "gen" /\ calls[b].kind = "gen") =>
              \/ calls[a].i < calls[b].i
              \/ calls[a].i = calls[b].i /\ calls[a].j < calls[b].j
    /\ \A b \in 1 .. Len(calls) :
          /\ calls[b].kind = "run" => calls[b].w \in 1 .. NumWorkloads
          /\ calls[b].kind # "gen" =>
                \E a \in 1 .. b - 1 :
                    calls[a] = Call("gen", calls[b].i, calls[b].j, 0)
    /\ \A ii \in 0 .. ITERATIONS - 1 :
          SlotLoopOver(ii) => Cardinality(GenCallsOf(ii)) = CANDIDATES

\* Two iterations of two slots ran to their end with a generator failure, a
\* build failure and two evaluated candidates.
C22_Witness ==
    /\ ITERATIONS = 2 /\ CANDIDATES = 2
    /\ pc = "done"
    /\ status[<<0, 0>>] = "gen_failed"
    /\ status[<<0, 1>>] = "ok"
    /\ status[<<1, 0>>] = "build_failed"
    /\ status[<<1, 1>>] = "ok"
    /\ Len(calls) = 7 + 2 * NumWorkloads

\* ---------------------------------------------------------------- C23
\* C23: two candidates of different (iteration, slot) have different source
\* file names and different executable names, and no source file name is an
\* executable name, whatever their policy names; the same iteration, slot
\* and name give the same file names.
C23_FileNamesCollisionFree ==
    op = "cc_name" =>
        LET a == arg[1]
            b == arg[2]
        IN /\ (a.i # b.i \/ a.j # b.j) =>
                  /\ res.cc[1] # res.cc[2]
                  /\ res.exe[1] # res.exe[2]
                  /\ res.cc[1] # res.exe[2]
                  /\ res.exe[1] # res.cc[2]
           /\ a = b => res.cc[1] = res.cc[2] /\ res.exe[1] = res.exe[2]
           /\ res.cc[1] # res.exe[1]

\* Names were built for the same policy name in two slots of one iteration.
C23_Witness ==
    /\ op = "cc_name"
    /\ arg[1].i = 10 /\ arg[2].i = 10
    /\ arg[1].j = 0 /\ arg[2].j = 1
    /\ arg[1].name = arg[2].name
    /\ Len(arg[1].name) = MaxStemLen

\* ---------------------------------------------------------------- C24
\* The 'all' rows written in iteration ii.
AllRowsOf(ii) == {k \in AllRows : store[k].cc.i = ii}

\* Iteration ii is over: the loop went on, or the run ended in it.
IterationOver(ii) == i > ii \/ (i = ii /\ pc \in {"for", "done", "aborted"})

\* C24: an iteration writes at most one 'all' row; once it is over it has
\* written exactly one if and only if one of its candidates completed
\* evaluation; the row carries the name and the average of the winner.
C24_OneAggregateRowIffEvaluated ==
    /\ \A ii \in 0 .. ITERATIONS - 1 :
          /\ Cardinality(AllRowsOf(ii)) <= 1
          /\ IterationOver(ii) =>
                (Cardinality(AllRowsOf(ii)) = 1 <=>
                    \E jj \in 0 .. CANDIDATES - 1 : status[<<ii, jj>>] = "ok")
    /\ Selected =>
          /\ Last(store).workload = "all"
          /\ Last(store).policy = best_cand.name
          /\ Last(store).rate = best_cand.avg_hit

====
